---- MODULE Spec2Model ----
(***************************************************************************)
(* A model of twisted/trial/_asyncrunner.py: test suites, test decorators, *)
(* the structural recursions decorate and iterateTests, and the decorator  *)
(* that forces garbage collection around a test.                           *)
(*                                                                         *)
(* Objects.  A test is a record [kind, id, decs]:                          *)
(*   kind = "suite": the suite object number id (decs is empty);           *)
(*   kind = "leaf" : the test case number id wrapped by the decorators     *)
(*                   named in decs, innermost first.                       *)
(* A suite's _tests attribute is a reference to a list object: tests[s] is *)
(* the list object bound to suite s, lists[l] the contents of list l.      *)
(***************************************************************************)
EXTENDS Integers, Sequences, FiniteSets, TLC

VARIABLES
    tests,      \* tests[s]: the list object bound to suite s's _tests
    lists,      \* lists[l]: the contents of list object l
    nleaf,      \* number of test cases created so far
    ndec,       \* number of decorate calls made so far
    last,       \* what the last operation was given and what it produced
    pre,        \* tests and lists as they were before the last operation
    chain,      \* the decorators applied in a row to one target, and its
                \* leaves before the first of them
    cur,        \* the test under construction: a value and the decorator
                \* objects wrapped around it, innermost first
    observer,   \* the process-wide _logObserver
    nruns,      \* number of runs of a decorated test made so far
    lastRun,    \* what the last construction or run did
    adapter,    \* a foreign test case, its adapter and the last call on it
    gen         \* an iterateTests generator: its frames and what it yielded

suiteVars == <<tests, lists, nleaf, ndec, last, pre, chain>>
decoratorVars == <<cur, observer, nruns, lastRun>>
otherVars == <<adapter, gen>>
vars == <<tests, lists, nleaf, ndec, last, pre, chain,
          cur, observer, nruns, lastRun, adapter, gen>>

(***************************************************************************)
(* Bounds of the model.                                                    *)
(***************************************************************************)
MaxSuites == 2
MaxLeaves == 2
MaxDecorates == 2
MaxWraps == 2
MaxErrors == 2
MaxRuns == 2
MaxVisits == 2

(***************************************************************************)
(* Values.                                                                 *)
(***************************************************************************)
Suite(s) == [kind |-> "suite", id |-> s, decs |-> <<>>]
Leaf(n) == [kind |-> "leaf", id |-> n, decs |-> <<>>]
NoTest == [kind |-> "none", id |-> 0, decs |-> <<>>]

\* The callables handed to decorate: d1 and d2 wrap their argument in a new
\* object, identity returns its argument.  A decorator with failAt = k > 0
\* raises on its k-th invocation; failAt = 0 never raises.
DecoratorNames == {"d1", "d2", "identity"}
Decorators == [name : DecoratorNames, failAt : 0..MaxLeaves]

Returning == {d \in Decorators : d.failAt = 0}

\* d(t) for a decorator that returns.
Apply(d, t) ==
    IF d.name = "identity" THEN t ELSE [t EXCEPT !.decs = Append(@, d.name)]

\* iter(t) raises TypeError exactly when t is not a suite.
IsIterable(t) == t.kind = "suite"

\* The list a suite's _tests is bound to, in heap h.
TestsOf(h, s) == h.lists[h.tests[s]]

(***************************************************************************)
(* test.addTest(...): append to the list _tests is bound to.               *)
(***************************************************************************)
\* A variant that inserts at the front: self._tests.insert(0, test).
addTestFirst(m, suite, t) ==
    [m EXCEPT !.lists[m.tests[suite.id]] = <<t>> \o @]

addTest(m, suite, t) ==
    [m EXCEPT !.lists[m.tests[suite.id]] = Append(@, t)]

(***************************************************************************)
(* _clearSuite: suite._tests = [] binds a new, empty list object; the list *)
(* object that was bound before keeps its contents.                        *)
(***************************************************************************)
\* A variant that empties the list object in place: del suite._tests[:].
_clearSuiteInPlace(m, suite) ==
    [m EXCEPT !.lists[m.tests[suite.id]] = <<>>]

_clearSuite(m, suite) ==
    [m EXCEPT !.lists = Append(@, <<>>),
              !.tests[suite.id] = Len(m.lists) + 1]

(***************************************************************************)
(* decorate(test, decorator).  m carries the heap (tests, lists), the      *)
(* arguments the decorator has been invoked on (calls) and whether an      *)
(* exception is propagating (exc).  The result is [m, ret].                *)
(***************************************************************************)
\* A variant that returns the test as it is: return test.
callDecoratorDropped(m, d, t) ==
    [m |-> m, ret |-> t]

\* A variant that decorates what it has decorated:
\* return decorator(decorator(test)).
callDecoratorTwice(m, d, t) ==
    LET m1 == [m EXCEPT !.calls = Append(Append(@, t), Apply(d, t))]
    IN  [m |-> m1, ret |-> Apply(d, Apply(d, t))]

callDecorator(m, d, t) ==
    LET m1 == [m EXCEPT !.calls = Append(@, t)]
    IN  IF d.failAt = Len(m1.calls)
        THEN [m |-> [m1 EXCEPT !.exc = TRUE], ret |-> NoTest]
        ELSE [m |-> m1, ret |-> Apply(d, t)]

RECURSIVE decorate(_, _, _)
RECURSIVE decorateLoop(_, _, _, _, _)

\* A variant that puts the suite's old list back when a child raises:
\* try: the loop; except: test._tests = the old list; raise.
RECURSIVE decorateLoopRestoring(_, _, _, _, _)
decorateLoopRestoring(m, test, d, l, i) ==
    IF i > Len(m.lists[l])
    THEN [m |-> m, ret |-> test]
    ELSE LET r == decorate(m, m.lists[l][i], d)
         IN  IF r.m.exc
             THEN [m |-> [r.m EXCEPT !.tests[test.id] = l], ret |-> r.ret]
             ELSE decorateLoopRestoring(addTest(r.m, test, r.ret), test, d, l, i + 1)

\* for case in tests: test.addTest(decorate(case, decorator)); return test
\* where tests is a list iterator over list object l, at position i.
decorateLoop(m, test, d, l, i) ==
    IF i > Len(m.lists[l])
    THEN [m |-> m, ret |-> test]
    ELSE LET r == decorate(m, m.lists[l][i], d)
         IN  IF r.m.exc
             THEN r
             ELSE decorateLoop(addTest(r.m, test, r.ret), test, d, l, i + 1)

decorate(m, test, d) ==
    IF ~IsIterable(test)
    THEN callDecorator(m, d, test)
    ELSE decorateLoop(_clearSuite(m, test), test, d, m.tests[test.id], 1)

(***************************************************************************)
(* iterateTests(testSuiteOrCase), consumed to the end: the sequence of     *)
(* values the generator yields.                                            *)
(***************************************************************************)
RECURSIVE iterateTests(_, _)
RECURSIVE iterateLoop(_, _, _)

iterateLoop(h, l, i) ==
    IF i > Len(h.lists[l])
    THEN <<>>
    ELSE iterateTests(h, h.lists[l][i]) \o iterateLoop(h, l, i + 1)

\* A variant that yields a suite before the tests in it.
iterateTestsWithSuites(h, t) ==
    IF ~IsIterable(t)
    THEN <<t>>
    ELSE <<t>> \o iterateLoop(h, h.tests[t.id], 1)

iterateTests(h, t) ==
    IF ~IsIterable(t)
    THEN <<t>>
    ELSE iterateLoop(h, h.tests[t.id], 1)

(***************************************************************************)
(* TestSuite.run(result) and TestSuite.__call__(result).  A result is a    *)
(* record [id, shouldStop, stopper, log]: id names the result object,      *)
(* stopper is the test case that calls result.stop() when it runs (0: no   *)
(* test case does), and                                                    *)
(* log records, in order, every reading of result.shouldStop by a suite's  *)
(* loop ("check") and every invocation test(result) ("call").              *)
(***************************************************************************)
Event(ev, s, i, t, stop) ==
    [ev |-> ev, suite |-> s, idx |-> i, test |-> t, stop |-> stop]

\* A test case is run: it reports to the result and may ask it to stop.
runLeaf(r, t) ==
    [r EXCEPT !.shouldStop = @ \/ t.id = r.stopper]

RECURSIVE run(_, _, _)
RECURSIVE runLoop(_, _, _, _, _)

\* test(result): __call__ of a suite is its run; a test case is run.
call(h, r, t) ==
    IF t.kind = "suite" THEN run(h, r, t) ELSE runLeaf(r, t)

\* A variant that reads shouldStop after the child instead of before it:
\* test(result); if result.shouldStop: break.
RECURSIVE runLoopCheckAfter(_, _, _, _, _)
runLoopCheckAfter(h, r, suite, l, i) ==
    IF i > Len(h.lists[l])
    THEN r
    ELSE LET t == h.lists[l][i]
             r1 == [r EXCEPT !.log = Append(@, Event("call", suite.id, i, t, FALSE))]
             r2 == call(h, r1, t)
             r3 == [r2 EXCEPT !.log = Append(@, Event("check", suite.id, i, t, r2.shouldStop))]
         IN  IF r2.shouldStop THEN r3
             ELSE runLoopCheckAfter(h, r3, suite, l, i + 1)

\* A variant whose loop leaves out the last child:
\* for test in self._tests[:-1].
RECURSIVE runLoopButLast(_, _, _, _, _)
runLoopButLast(h, r, suite, l, i) ==
    IF i >= Len(h.lists[l])
    THEN r
    ELSE LET t == h.lists[l][i]
             r1 == [r EXCEPT !.log = Append(@, Event("check", suite.id, i, t, r.shouldStop))]
         IN  IF r.shouldStop
             THEN r1
             ELSE LET r2 == [r1 EXCEPT !.log = Append(@, Event("call", suite.id, i, t, FALSE))]
                  IN  runLoopButLast(h, call(h, r2, t), suite, l, i + 1)

\* for test in self._tests: if result.shouldStop: break; test(result)
\* where the loop iterates list object l and is at position i.
runLoop(h, r, suite, l, i) ==
    IF i > Len(h.lists[l])
    THEN r
    ELSE LET t == h.lists[l][i]
             r1 == [r EXCEPT !.log = Append(@, Event("check", suite.id, i, t, r.shouldStop))]
         IN  IF r.shouldStop
             THEN r1
             ELSE LET r2 == [r1 EXCEPT !.log = Append(@, Event("call", suite.id, i, t, FALSE))]
                  IN  runLoop(h, call(h, r2, t), suite, l, i + 1)

\* A variant that returns nothing: the loop, then return None.
runReturnsNone(h, r, suite) ==
    [runLoop(h, r, suite, h.tests[suite.id], 1) EXCEPT !.id = 0]

\* run returns the result it was given.
run(h, r, suite) == runLoop(h, r, suite, h.tests[suite.id], 1)

(***************************************************************************)
(* Decorators.  A value under test is [shape, wrappers]: shape is the kind *)
(* of the innermost value ("case" provides ITestCase, "pyunit" is a        *)
(* pyunit.TestCase an adapter is registered for, "object" is neither) and  *)
(* wrappers are the classes of the decorator objects around it, innermost  *)
(* first.                                                                  *)
(***************************************************************************)
Shapes == {"case", "pyunit", "object"}
Classes == {"TestDecorator", "_ForceGarbageCollectionDecorator"}

\* The value provides ITestCase or can be adapted to it.
Adaptable(v) == v.wrappers # <<>> \/ v.shape \in {"case", "pyunit"}

\* A variant of the constructor that takes any value.
ConstructUnchecked(cls, v) ==
    [ok |-> TRUE, obj |-> [v EXCEPT !.wrappers = Append(@, cls)]]

\* cls(v): the constructor of a decorator class.  ok is false when it
\* fails with UnadaptableTestError.
Construct(cls, v) ==
    IF Adaptable(v)
    THEN [ok |-> TRUE, obj |-> [v EXCEPT !.wrappers = Append(@, cls)]]
    ELSE [ok |-> FALSE, obj |-> v]

\* self._originalTest
OriginalTest(self) ==
    [self EXCEPT !.wrappers = SubSeq(@, 1, Len(@) - 1)]

(***************************************************************************)
(* The log observer: add starts capturing, getErrors is the captured       *)
(* errors, flushErrors clears them, remove stops capturing.  An error that *)
(* is logged is captured when the observer is capturing.                   *)
(***************************************************************************)
_add(obs) == [obs EXCEPT !.capturing = TRUE]
_remove(obs) == [obs EXCEPT !.capturing = FALSE]
getErrors(obs) == obs.errors
flushErrors(obs) == [obs EXCEPT !.errors = <<>>]
logError(obs, e) ==
    IF obs.capturing THEN [obs EXCEPT !.errors = Append(@, e)] ELSE obs

(***************************************************************************)
(* A run.  st carries the observer (obs), the events of the run in order   *)
(* (trace), the calls of addError that reached the result the run was      *)
(* started with (added), whether an exception is propagating (exc), and    *)
(* what the environment does during the run (env): the first sweep of a    *)
(* decorator logs an error when env.pre, the second logs env.post errors,  *)
(* and the result's addError raises on its env.failAt-th call (0: never).  *)
(* A result is the sequence of the classes of the result adapters wrapped  *)
(* around the result the run was started with, outermost last.             *)
(***************************************************************************)
Ev(ev, self, arg) == [ev |-> ev, level |-> Len(self.wrappers), test |-> arg.test,
                      error |-> arg.error]
NoArg == [test |-> [shape |-> "none", wrappers |-> <<>>], error |-> <<>>]

Trace(st, ev, self, arg) == [st EXCEPT !.trace = Append(@, Ev(ev, self, arg))]

\* gc.collect(): the finalizers that run log n errors.
RECURSIVE logErrors(_, _, _, _)
logErrors(obs, tag, n, i) ==
    IF i > n THEN obs
    ELSE logErrors(logError(obs, <<tag.run, tag.level, tag.sweep, i>>), tag, n, i + 1)

gc_collect(st, self, sweep) ==
    LET n == IF sweep = "pre" THEN (IF st.env.pre THEN 1 ELSE 0) ELSE st.env.post
        tag == [run |-> st.run, level |-> Len(self.wrappers), sweep |-> sweep]
    IN  [Trace(st, "gc", self, NoArg) EXCEPT !.obs = logErrors(@, tag, n, 1)]

\* reporter._AdaptedReporter(result, cls)
AdaptedReporter(result, cls) == Append(result, cls)

\* result.addError(test, error): each adapter hands the test, wrapped by its
\* class, to the result it adapts; the innermost result records the call or
\* raises.
RECURSIVE addError(_, _, _, _)
addError(st, result, test, error) ==
    IF result = <<>>
    THEN LET st1 == [st EXCEPT !.added = Append(@, [test |-> test, error |-> error])]
         IN  IF Len(st1.added) = st.env.failAt
             THEN [st1 EXCEPT !.exc = TRUE]
             ELSE st1
    ELSE addError(st, SubSeq(result, 1, Len(result) - 1),
                  Construct(result[Len(result)], test).obj, error)

\* The test that the result the run was started with is told of when test
\* is reported to result: each adapter wraps it by its class on the way.
RECURSIVE attributed(_, _)
attributed(result, test) ==
    IF result = <<>> THEN test
    ELSE attributed(SubSeq(result, 1, Len(result) - 1),
                    Construct(result[Len(result)], test).obj)

\* The call self._originalTest.run(result), recorded.
Passed(st, self, result) ==
    [st EXCEPT !.passed = Append(@, [level |-> Len(self.wrappers),
                                     to |-> OriginalTest(self),
                                     result |-> result])]

RECURSIVE runTest(_, _, _)
RECURSIVE drain(_, _, _, _, _)

\* A variant that hands the caller's result to the wrapped test:
\* self._originalTest.run(result).
TestDecorator_runSameResult(st, self, result) ==
    LET st1 == Passed(Trace(st, "run", self, NoArg), self, result)
        st2 == runTest(st1, OriginalTest(self), result)
    IN  IF st2.exc THEN st2 ELSE Trace(st2, "ran", self, NoArg)

\* TestDecorator.run: self._originalTest.run(_AdaptedReporter(result, cls))
TestDecorator_run(st, self, result) ==
    LET adapted == AdaptedReporter(result, self.wrappers[Len(self.wrappers)])
        st1 == Passed(Trace(st, "run", self, NoArg), self, adapted)
        st2 == runTest(st1, OriginalTest(self), adapted)
    IN  IF st2.exc THEN st2 ELSE Trace(st2, "ran", self, NoArg)

\* for error in errors: result.addError(self, error), from position i on.
drain(st, self, result, errors, i) ==
    IF i > Len(errors) THEN st
    ELSE LET arg == [test |-> self, error |-> errors[i]]
             st1 == addError(Trace(st, "addError", self, arg), result, self, errors[i])
         IN  IF st1.exc THEN st1 ELSE drain(st1, self, result, errors, i + 1)

\* A run that starts capturing before the wrapped test runs.
_ForceGarbageCollectionDecorator_runAddFirst(st, self, result) ==
    LET s1 == gc_collect(st, self, "pre")
        s2 == Trace([s1 EXCEPT !.obs = _add(@)], "_add", self, NoArg)
        s3 == TestDecorator_run(s2, self, result)
        s4 == gc_collect(s3, self, "post")
        s5 == drain(Trace(s4, "getErrors", self, NoArg), self, result,
                    getErrors(s4.obs), 1)
        s6 == Trace([s5 EXCEPT !.obs = flushErrors(@)], "flushErrors", self, NoArg)
        s7 == Trace([s6 EXCEPT !.obs = _remove(@)], "_remove", self, NoArg)
    IN  IF s3.exc THEN s3 ELSE IF s5.exc THEN s5 ELSE s7

\* _ForceGarbageCollectionDecorator.run
_ForceGarbageCollectionDecorator_run(st, self, result) ==
    LET s1 == gc_collect(st, self, "pre")
        s2 == TestDecorator_run(s1, self, result)
        s3 == Trace([s2 EXCEPT !.obs = _add(@)], "_add", self, NoArg)
        s4 == gc_collect(s3, self, "post")
        s5 == drain(Trace(s4, "getErrors", self, NoArg), self, result,
                    getErrors(s4.obs), 1)
        s6 == Trace([s5 EXCEPT !.obs = flushErrors(@)], "flushErrors", self, NoArg)
        s7 == Trace([s6 EXCEPT !.obs = _remove(@)], "_remove", self, NoArg)
    IN  IF s2.exc THEN s2 ELSE IF s5.exc THEN s5 ELSE s7

\* test.run(result): the run of the outermost decorator's class; the run of
\* a test case reports itself to the result and returns.
runTest(st, test, result) ==
    IF test.wrappers = <<>>
    THEN Trace(st, "case", test,
               [test |-> attributed(result, test), error |-> <<>>])
    ELSE IF test.wrappers[Len(test.wrappers)] = "_ForceGarbageCollectionDecorator"
    THEN _ForceGarbageCollectionDecorator_run(st, test, result)
    ELSE TestDecorator_run(st, test, result)

\* TestDecorator.__call__: return self.run(result)
TestDecorator_call(st, self, result) == runTest(st, self, result)

(***************************************************************************)
(* Foreign test cases and their adapters.                                  *)
(*                                                                         *)
(* A foreign case is a record [type, desc, id]: its class, what its        *)
(* shortDescription() returns (None when it has none) and what its id()    *)
(* returns.  An adapter object is a record [cls, case]; cls = "" stands    *)
(* for the bare case.                                                      *)
(***************************************************************************)
None == "<None>"

CaseTypes == {"pyunit.TestCase", "pyunit.FunctionTestCase",
              "doctest.DocTestCase", "UserTestCase", "object"}
Descriptions == {None, "", "short"}
Ids == {"mod.f", "mod.g"}

\* The method resolution order of each class, most specific first.
Mro(type) ==
    IF type = "object" THEN <<"object">>
    ELSE IF type = "pyunit.TestCase" THEN <<"pyunit.TestCase", "object">>
    ELSE <<type, "pyunit.TestCase", "object">>

NoCase == [type |-> "", desc |-> None, id |-> ""]
Bare(case) == [cls |-> "", case |-> case]

\* A variant that registers function-style cases with the generic adapter.
RegistrationsGenericOnly(hasDocTestCase) ==
    {[adapter |-> "_PyUnitTestCaseAdapter", type |-> "pyunit.TestCase"],
     [adapter |-> "_PyUnitTestCaseAdapter", type |-> "pyunit.FunctionTestCase"]}

\* The registerAdapter calls made when the module is loaded; the one for
\* doctest.DocTestCase is made only where doctest has that class.
Registrations(hasDocTestCase) ==
    {[adapter |-> "_PyUnitTestCaseAdapter", type |-> "pyunit.TestCase"],
     [adapter |-> "_BrokenIDTestCaseAdapter", type |-> "pyunit.FunctionTestCase"]}
    \cup (IF hasDocTestCase
          THEN {[adapter |-> "_BrokenIDTestCaseAdapter",
                 type |-> "doctest.DocTestCase"]}
          ELSE {})

\* The adapter registered for the first class of mro[i..] that has one.
RECURSIVE lookup(_, _, _)
lookup(regs, mro, i) ==
    IF i > Len(mro) THEN ""
    ELSE IF \E r \in regs : r.type = mro[i]
    THEN (CHOOSE r \in regs : r.type = mro[i]).adapter
    ELSE lookup(regs, mro, i + 1)

\* itrial.ITestCase(case): the case wrapped in its registered adapter, or a
\* failure to adapt.
ITestCase(regs, case) ==
    LET cls == lookup(regs, Mro(case.type), 1)
    IN  IF cls = ""
        THEN [ok |-> FALSE, obj |-> Bare(case)]
        ELSE [ok |-> TRUE, obj |-> [cls |-> cls, case |-> case]]

shortDescription(case) == case.desc

\* A variant that tests the description for truth instead of for None.
_BrokenIDTestCaseAdapter_idTruthy(self) ==
    LET testID == shortDescription(self.case)
    IN  IF testID \notin {None, ""} THEN testID ELSE self.case.id

_BrokenIDTestCaseAdapter_id(self) ==
    LET testID == shortDescription(self.case)
    IN  IF testID # None THEN testID ELSE self.case.id

\* self.id(): overridden by _BrokenIDTestCaseAdapter, forwarded to the
\* wrapped case by every other adapter.
id(self) ==
    IF self.cls = "_BrokenIDTestCaseAdapter"
    THEN _BrokenIDTestCaseAdapter_id(self)
    ELSE self.case.id

\* A variant that hands the wrapped case to the visitor.
_PyUnitTestCaseAdapter_visitOriginal(a, self) ==
    [a EXCEPT !.warnings = @ + 1, !.visited = Append(@, Bare(self.case))]

\* self.visit(visitor), for a visitor that records what it is called on:
\* a deprecation warning, then visitor(self).
_PyUnitTestCaseAdapter_visit(a, self) ==
    [a EXCEPT !.warnings = @ + 1, !.visited = Append(@, self)]

NoAdapter == [doctest |-> TRUE, obj |-> Bare(NoCase), op |-> "init",
              ok |-> TRUE, out |-> "", calls |-> 0, warnings |-> 0,
              visited |-> <<>>]

(***************************************************************************)
(* The iterateTests generator, advanced one entry at a time.  A generator  *)
(* that is suspended in the loop over a suite holds a list iterator: the   *)
(* list object l it was made from and the position i of the entry it       *)
(* fetches next.  frames are the iterators of the nested generators,       *)
(* outermost first; the generator of a test case holds none.               *)
(***************************************************************************)
NoGen == [status |-> "none", target |-> NoTest, frames |-> <<>>,
          yielded |-> <<>>, orig |-> <<>>, ndec0 |-> 0]

\* The loops run until the next yield or until the outermost one is over:
\* for test in suite: for subtest in iterateTests(test): yield subtest
RECURSIVE resume(_, _)
resume(h, g) ==
    IF g.frames = <<>>
    THEN [g EXCEPT !.status = "done"]
    ELSE LET n == Len(g.frames)
             f == g.frames[n]
         IN  IF f.i > Len(h.lists[f.l])
             THEN resume(h, [g EXCEPT !.frames = SubSeq(@, 1, n - 1)])
             ELSE LET t == h.lists[f.l][f.i]
                      g1 == [g EXCEPT !.frames[n].i = @ + 1]
                  IN  IF IsIterable(t)
                      THEN resume(h, [g1 EXCEPT !.frames =
                                          Append(@, [l |-> h.tests[t.id], i |-> 1])])
                      ELSE [g1 EXCEPT !.status = "suspended",
                                      !.yielded = Append(@, t)]

\* next(g): the body starts at the first call, with iter(target), and goes
\* on after the last yield at every other call.
iterateTests_next(h, g) ==
    IF g.status = "created"
    THEN IF IsIterable(g.target)
         THEN resume(h, [g EXCEPT !.frames = <<[l |-> h.tests[g.target.id], i |-> 1]>>])
         ELSE [g EXCEPT !.status = "suspended", !.yielded = Append(@, g.target)]
    ELSE resume(h, g)

(***************************************************************************)
(* The state machine of decorators.                                        *)
(***************************************************************************)
Value(shape) == [shape |-> shape, wrappers |-> <<>>]

NoObserver == [capturing |-> FALSE, errors |-> <<>>]

NoEnv == [pre |-> FALSE, post |-> 0, failAt |-> 0]

NoRun == [op |-> "init", ok |-> TRUE, cls |-> "", before |-> NoObserver,
          env |-> NoEnv, trace |-> <<>>, added |-> <<>>, exc |-> FALSE,
          passed |-> <<>>]

Envs == [pre : BOOLEAN, post : 0..MaxErrors, failAt : 0..MaxErrors]

\* cur = cls(cur): a decorator is constructed around the current value.
Wrap(cls) ==
    /\ Len(cur.wrappers) < MaxWraps
    /\ LET c == Construct(cls, cur)
       IN  /\ cur' = c.obj
           /\ lastRun' = [NoRun EXCEPT !.op = "construct", !.ok = c.ok, !.cls = cls]
    /\ UNCHANGED <<observer, nruns, suiteVars, otherVars>>

\* cur(result), for a decorator cur and a new result: __call__ is run.
RunDecorated(env) ==
    /\ nruns < MaxRuns
    /\ cur.wrappers # <<>>
    /\ LET st0 == [obs |-> observer, trace |-> <<>>, added |-> <<>>,
                   exc |-> FALSE, env |-> env, run |-> nruns + 1,
                   passed |-> <<>>]
           st == TestDecorator_call(st0, cur, <<>>)
       IN  /\ observer' = st.obs
           /\ lastRun' = [NoRun EXCEPT !.op = "run", !.before = observer,
                                       !.env = env, !.trace = st.trace,
                                       !.added = st.added, !.exc = st.exc,
                                       !.passed = st.passed]
    /\ nruns' = nruns + 1
    /\ UNCHANGED <<cur, suiteVars, otherVars>>

(***************************************************************************)
(* The state machine of suites.                                            *)
(***************************************************************************)
Heap == [tests |-> tests, lists |-> lists]

NoDecorator == [name |-> "identity", failAt |-> 0]

NoResult == [id |-> 0, shouldStop |-> FALSE, stopper |-> 0, log |-> <<>>]

NoOp == [op |-> "init", arg |-> NoTest, d |-> NoDecorator, ret |-> NoTest,
         exc |-> FALSE, calls |-> <<>>, out |-> <<>>, before |-> <<>>,
         res |-> NoResult]

NoHeap == [tests |-> <<>>, lists |-> <<>>]

NoChain == [orig |-> <<>>, ds |-> <<>>]

\* The suite the program starts from and hands to decorate.
Root == Suite(1)

\* After construction: one empty suite, TestSuite().
Init ==
    /\ tests = <<1>>
    /\ lists = << <<>> >>
    /\ nleaf = 0
    /\ ndec = 0
    /\ last = NoOp
    /\ pre = NoHeap
    /\ chain = NoChain
    /\ cur = Value("case")
    /\ observer = NoObserver
    /\ nruns = 0
    /\ lastRun = NoRun
    /\ adapter = NoAdapter
    /\ gen = NoGen

Suites == {Suite(s) : s \in 1..Len(tests)}

\* Every test in the heap: the suites and the entries of their lists.
AllTests == Suites \cup UNION {{TestsOf(Heap, s)[i] : i \in 1..Len(TestsOf(Heap, s))}
                                 : s \in 1..Len(tests)}

\* suite.addTest(TestCase()): a new test case is appended to a suite.  The
\* tree is built before it is decorated.
AddLeaf(s) ==
    /\ ndec = 0
    /\ nleaf < MaxLeaves
    /\ LET h == addTest(Heap, s, Leaf(nleaf + 1))
       IN  /\ tests' = h.tests
           /\ lists' = h.lists
    /\ nleaf' = nleaf + 1
    /\ last' = NoOp
    /\ pre' = NoHeap
    /\ chain' = NoChain
    /\ UNCHANGED <<ndec, decoratorVars, otherVars>>

\* suite.addTest(TestSuite()): a new, empty suite is appended to a suite.
AddSuite(s) ==
    /\ ndec = 0
    /\ Len(tests) < MaxSuites
    /\ LET new == Len(tests) + 1
           h0 == [tests |-> Append(tests, Len(lists) + 1),
                  lists |-> Append(lists, <<>>)]
           h == addTest(h0, s, Suite(new))
       IN  /\ tests' = h.tests
           /\ lists' = h.lists
    /\ last' = NoOp
    /\ pre' = NoHeap
    /\ chain' = NoChain
    /\ UNCHANGED <<nleaf, ndec, decoratorVars, otherVars>>

\* decorate(Root, d), for any decorator d that returns.
Decorate(d) ==
    /\ ndec < MaxDecorates
    /\ LET m0 == [tests |-> tests, lists |-> lists, calls |-> <<>>, exc |-> FALSE]
           r == decorate(m0, Root, d)
           before == iterateTests(Heap, Root)
       IN  /\ tests' = r.m.tests
           /\ lists' = r.m.lists
           /\ last' = [NoOp EXCEPT !.op = "decorate", !.arg = Root, !.d = d,
                                   !.ret = r.ret, !.exc = r.m.exc,
                                   !.calls = r.m.calls, !.before = before]
           /\ chain' = IF r.m.exc THEN NoChain
                       ELSE IF chain.ds = <<>>
                       THEN [orig |-> before, ds |-> <<d>>]
                       ELSE [chain EXCEPT !.ds = Append(@, d)]
    /\ pre' = Heap
    /\ ndec' = ndec + 1
    /\ UNCHANGED <<nleaf, decoratorVars, otherVars>>

\* iterateTests and run leave the suites as they are: one that follows
\* another starts from the same suites as the first, so the model takes
\* them one at a time after each operation that changes the suites.
Changed == last.op \in {"init", "decorate"}

\* list(iterateTests(t)), for any test t of the heap.
Iterate(t) ==
    /\ Changed
    /\ last' = [NoOp EXCEPT !.op = "iterateTests", !.arg = t,
                            !.out = iterateTests(Heap, t)]
    /\ pre' = NoHeap
    /\ UNCHANGED <<tests, lists, nleaf, ndec, chain, decoratorVars, otherVars>>

\* suite.run(result), for any suite of the heap, a result whose shouldStop
\* is stop0, and test cases of which stopper, if any, stops the run.  Only a
\* test case of the suite that is run can stop it, and none runs when
\* shouldStop is set from the start.
Run(suite, stop0, stopper) ==
    /\ Changed
    /\ stopper # 0 =>
           /\ ~stop0
           /\ \E i \in 1..Len(iterateTests(Heap, suite)) :
                  iterateTests(Heap, suite)[i].id = stopper
    /\ LET r0 == [id |-> 1, shouldStop |-> stop0, stopper |-> stopper,
                  log |-> <<>>]
       IN  last' = [NoOp EXCEPT !.op = "run", !.arg = suite,
                                !.res = run(Heap, r0, suite)]
    /\ pre' = NoHeap
    /\ UNCHANGED <<tests, lists, nleaf, ndec, chain, decoratorVars, otherVars>>

\* suite(result): __call__ of a suite, on the inputs of Run.
CallSuite(suite, stop0, stopper) ==
    /\ Changed
    /\ stopper # 0 =>
           /\ ~stop0
           /\ \E i \in 1..Len(iterateTests(Heap, suite)) :
                  iterateTests(Heap, suite)[i].id = stopper
    /\ LET r0 == [id |-> 1, shouldStop |-> stop0, stopper |-> stopper,
                  log |-> <<>>]
       IN  last' = [NoOp EXCEPT !.op = "__call__", !.arg = suite,
                                !.res = call(Heap, r0, suite)]
    /\ pre' = NoHeap
    /\ UNCHANGED <<tests, lists, nleaf, ndec, chain, decoratorVars, otherVars>>

Next ==
    \/ \E s \in Suites : AddLeaf(s)
    \/ \E s \in Suites : AddSuite(s)
    \/ \E d \in Returning : Decorate(d)
    \/ \E t \in AllTests : Iterate(t)
    \/ \E s \in Suites, stop0 \in BOOLEAN, stopper \in 0..nleaf :
           Run(s, stop0, stopper)

Spec == Init /\ [][Next]_vars

\* Runs of the suites of a tree, through run and through __call__.
NextRun ==
    \/ \E s \in Suites : AddLeaf(s)
    \/ \E s \in Suites : AddSuite(s)
    \/ \E s \in Suites, stop0 \in BOOLEAN, stopper \in 0..nleaf :
           Run(s, stop0, stopper)
    \/ \E s \in Suites, stop0 \in BOOLEAN, stopper \in 0..nleaf :
           CallSuite(s, stop0, stopper)

SpecRun == Init /\ [][NextRun]_vars

\* The decorators that wrap, those that raise at some test case included.
Raising == {d \in Decorators : d.name = "d1"}

\* A tree is built and decorated with a decorator that may raise.
NextRaising ==
    \/ \E s \in Suites : AddLeaf(s)
    \/ \E s \in Suites : AddSuite(s)
    \/ \E d \in Raising : Decorate(d)

SpecRaising == Init /\ [][NextRaising]_vars

\* g = iterateTests(Root): the generator is created; nothing of its body has
\* run.  orig is what iterateTests yields from the tree as it is now.
CreateGenerator ==
    /\ gen.status = "none"
    /\ gen' = [NoGen EXCEPT !.status = "created", !.target = Root,
                            !.orig = iterateTests(Heap, Root),
                            !.ndec0 = ndec]
    /\ UNCHANGED <<suiteVars, decoratorVars, adapter>>

\* next(g)
Advance ==
    /\ gen.status \in {"created", "suspended"}
    /\ gen' = iterateTests_next(Heap, gen)
    /\ UNCHANGED <<suiteVars, decoratorVars, adapter>>

\* A tree is built, a generator over it is created, and between two
\* advances of the generator the tree is decorated, once.
NextGenerator ==
    \/ \E s \in Suites : gen.status = "none" /\ AddLeaf(s)
    \/ \E s \in Suites : gen.status = "none" /\ AddSuite(s)
    \/ CreateGenerator
    \/ Advance
    \/ \E d \in Returning :
           /\ gen.status \in {"created", "suspended"}
           /\ ndec = gen.ndec0
           /\ Decorate(d)

SpecGenerator == Init /\ [][NextGenerator]_vars

\* Decorators: the value under test is any of the shapes.
InitDecorators ==
    /\ tests = <<1>>
    /\ lists = << <<>> >>
    /\ nleaf = 0
    /\ ndec = 0
    /\ last = NoOp
    /\ pre = NoHeap
    /\ chain = NoChain
    /\ cur \in {Value(shape) : shape \in Shapes}
    /\ observer = NoObserver
    /\ nruns = 0
    /\ lastRun = NoRun
    /\ adapter = NoAdapter
    /\ gen = NoGen

NextDecorators ==
    \/ \E cls \in Classes : Wrap(cls)
    \/ \E env \in Envs : RunDecorated(env)

SpecDecorators == InitDecorators /\ [][NextDecorators]_vars

(***************************************************************************)
(* The state machine of adapters.                                          *)
(***************************************************************************)
\* A foreign case is constructed; a doctest-style case exists only where
\* doctest has the class.
NewCase(type, desc, caseId) ==
    /\ type = "doctest.DocTestCase" => adapter.doctest
    /\ adapter' = [NoAdapter EXCEPT
                       !.doctest = adapter.doctest,
                       !.obj = Bare([type |-> type, desc |-> desc,
                                     id |-> caseId]),
                       !.op = "new"]
    /\ UNCHANGED <<suiteVars, decoratorVars, gen>>

\* itrial.ITestCase(case) on the bare case.
Adapt ==
    /\ adapter.obj.cls = ""
    /\ adapter.obj.case # NoCase
    /\ adapter.op = "new"
    /\ LET r == ITestCase(Registrations(adapter.doctest), adapter.obj.case)
       IN  adapter' = [adapter EXCEPT !.obj = r.obj, !.ok = r.ok,
                                      !.op = "adapt"]
    /\ UNCHANGED <<suiteVars, decoratorVars, gen>>

\* adapter.id()
CallId ==
    /\ adapter.obj.cls # ""
    /\ adapter' = [adapter EXCEPT !.out = id(adapter.obj), !.op = "id"]
    /\ UNCHANGED <<suiteVars, decoratorVars, gen>>

\* adapter.visit(visitor)
Visit ==
    /\ adapter.obj.cls # ""
    /\ adapter.calls < MaxVisits
    /\ adapter' = [_PyUnitTestCaseAdapter_visit(adapter, adapter.obj)
                       EXCEPT !.op = "visit", !.calls = @ + 1]
    /\ UNCHANGED <<suiteVars, decoratorVars, gen>>

InitAdapters ==
    /\ tests = <<1>>
    /\ lists = << <<>> >>
    /\ nleaf = 0
    /\ ndec = 0
    /\ last = NoOp
    /\ pre = NoHeap
    /\ chain = NoChain
    /\ cur = Value("case")
    /\ observer = NoObserver
    /\ nruns = 0
    /\ lastRun = NoRun
    /\ adapter \in {[NoAdapter EXCEPT !.doctest = b] : b \in BOOLEAN}
    /\ gen = NoGen

NextAdapters ==
    \/ \E type \in CaseTypes, desc \in Descriptions, caseId \in Ids :
           NewCase(type, desc, caseId)
    \/ Adapt
    \/ CallId
    \/ Visit

SpecAdapters == InitAdapters /\ [][NextAdapters]_vars

(***************************************************************************)
(* Positions in a tree.  A path is the sequence of child indexes leading   *)
(* from a test to one of its descendants; Node is the test a path leads    *)
(* to, NoTest when the path leaves the tree.                               *)
(***************************************************************************)
PathDepth == MaxSuites
PathWidth == MaxSuites + MaxLeaves
Paths == UNION {[1..k -> 1..PathWidth] : k \in 0..PathDepth}

RECURSIVE Node(_, _, _)
Node(h, t, p) ==
    IF p = <<>> THEN t
    ELSE IF t.kind # "suite" THEN NoTest
    ELSE IF Head(p) > Len(TestsOf(h, t.id)) THEN NoTest
    ELSE Node(h, TestsOf(h, t.id)[Head(p)], Tail(p))

LeafPaths(h, t) == {p \in Paths : Node(h, t, p).kind = "leaf"}

\* q comes before p from left to right.
Before(q, p) ==
    \E k \in 1..Len(q) :
        /\ k <= Len(p)
        /\ q[k] < p[k]
        /\ \A j \in 1..(k - 1) : q[j] = p[j]

Rank(h, t, p) == Cardinality({q \in LeafPaths(h, t) : Before(q, p)}) + 1

Returned == last.op = "decorate" /\ ~last.exc

(***************************************************************************)
(* C1.  decorate(S, d) returns the suite object S it was given, and        *)
(* afterwards iterateTests(S) yields as many leaves as before the call,    *)
(* the i-th of them being d applied to the i-th leaf yielded before.       *)
(***************************************************************************)
C1_DecorateKeepsSuiteAndLeaves ==
    Returned =>
        /\ last.ret = last.arg
        /\ LET after == iterateTests(Heap, last.arg)
           IN  /\ Len(after) = Len(last.before)
               /\ \A i \in 1..Len(after) : after[i] = Apply(last.d, last.before[i])

C1_Witness ==
    /\ Returned
    /\ last.d.name = "d1"
    /\ Len(last.before) = 2
    /\ \E s \in 2..Len(tests) : Len(TestsOf(Heap, s)) > 0
    /\ iterateTests(Heap, Root) = <<[Leaf(1) EXCEPT !.decs = <<"d1">>],
                                    [Leaf(2) EXCEPT !.decs = <<"d1">>]>>

(***************************************************************************)
(* C3.  TestSuite.run reads result.shouldStop before each child, the first *)
(* included: the children a suite invokes are a prefix of its list, in     *)
(* order; once shouldStop is read true at a child's turn, that child and   *)
(* the later ones are not invoked, and run returns the result.             *)
(***************************************************************************)
CallsOf(log, s) == {n \in 1..Len(log) : log[n].ev = "call" /\ log[n].suite = s}

C3_ShouldStopBeforeEachChild ==
    last.op = "run" =>
        LET log == last.res.log
        IN  /\ last.res.id = 1
            /\ \A n \in 1..Len(log) :
                   log[n].ev = "call" =>
                       /\ n > 1
                       /\ log[n - 1] = [log[n] EXCEPT !.ev = "check"]
                       /\ log[n].test = TestsOf(Heap, log[n].suite)[log[n].idx]
                       /\ \A i \in 1..(log[n].idx - 1) :
                              \E k \in 1..(n - 1) :
                                  /\ log[k].ev = "call"
                                  /\ log[k].suite = log[n].suite
                                  /\ log[k].idx = i
            /\ \A n \in 1..Len(log) :
                   (log[n].ev = "check" /\ log[n].stop) =>
                       \A k \in 1..Len(log) :
                           (log[k].ev = "call" /\ log[k].suite = log[n].suite)
                               => log[k].idx < log[n].idx
            /\ (/\ TestsOf(Heap, last.arg.id) # <<>>
                /\ ~IsIterable(TestsOf(Heap, last.arg.id)[1])
                /\ TestsOf(Heap, last.arg.id)[1].id = last.res.stopper
                /\ log # <<>> /\ ~log[1].stop)
               => Cardinality(CallsOf(log, last.arg.id)) = 1

\* The first child stops the run and the second child is never invoked.
C3_Witness ==
    /\ last.op = "run"
    /\ last.arg = Root
    /\ Len(TestsOf(Heap, 1)) = 2
    /\ TestsOf(Heap, 1)[1].kind = "leaf"
    /\ Len(last.res.log) = 3
    /\ last.res.log[3].ev = "check"
    /\ last.res.log[3].idx = 2
    /\ last.res.log[3].stop
    /\ Cardinality(CallsOf(last.res.log, 1)) = 1

(***************************************************************************)
(* C6.  iterateTests of a test case yields that test case alone; of a      *)
(* suite it yields each leaf of the tree once, from left to right, and no  *)
(* suite: as many values as the tree has leaves.                           *)
(***************************************************************************)
C6_IterateTestsYieldsLeavesInOrder ==
    last.op = "iterateTests" =>
        LET t == last.arg
            out == last.out
            leaves == LeafPaths(Heap, t)
        IN  /\ ~IsIterable(t) => out = <<t>>
            /\ Len(out) = Cardinality(leaves)
            /\ \A i \in 1..Len(out) : out[i].kind = "leaf"
            /\ \A p \in leaves : out[Rank(Heap, t, p)] = Node(Heap, t, p)

\* A suite holding a leaf, then a nested suite with a leaf, is iterated.
C6_Witness ==
    /\ last.op = "iterateTests"
    /\ last.arg = Root
    /\ Len(last.out) = 2
    /\ Len(TestsOf(Heap, 1)) = 2
    /\ TestsOf(Heap, 1)[2].kind = "suite"
    /\ last.out[2] = Node(Heap, Root, <<2, 1>>)

(***************************************************************************)
(* C7.  decorate keeps the branching of the tree: each nested suite is the *)
(* same suite object at the same position with as many children as before, *)
(* and the positions that held leaves hold leaves.                         *)
(***************************************************************************)
C7_DecorateKeepsBranching ==
    Returned =>
        \A p \in Paths :
            LET a == Node(pre, last.arg, p)
                b == Node(Heap, last.arg, p)
            IN  /\ a.kind = "suite" =>
                       /\ b = a
                       /\ Len(TestsOf(Heap, b.id)) = Len(TestsOf(pre, a.id))
                /\ a.kind = "leaf" => b = Apply(last.d, a)
                /\ a.kind = "none" => b.kind = "none"

\* A nested suite that is not the last child, with a leaf after it.
C7_Witness ==
    /\ Returned
    /\ last.d.name = "d2"
    /\ Len(TestsOf(pre, 1)) = 2
    /\ TestsOf(pre, 1)[1].kind = "suite"
    /\ TestsOf(pre, 1)[2].kind = "leaf"
    /\ Node(Heap, Root, <<1, 1>>).kind = "leaf"

(***************************************************************************)
(* C8.  decorate with d1 and then with d2 leaves each leaf position        *)
(* holding d2(d1(leaf)); with two decorators that return their argument    *)
(* the leaves are the original ones, in the original order.                *)
(***************************************************************************)
C8_DecoratorsCompose ==
    Len(chain.ds) = 2 =>
        LET d1 == chain.ds[1]
            d2 == chain.ds[2]
            now == iterateTests(Heap, Root)
        IN  /\ Len(now) = Len(chain.orig)
            /\ \A i \in 1..Len(now) : now[i] = Apply(d2, Apply(d1, chain.orig[i]))
            /\ (d1.name = "identity" /\ d2.name = "identity") => now = chain.orig

C8_Witness ==
    /\ Len(chain.ds) = 2
    /\ chain.ds[1].name = "d1"
    /\ chain.ds[2].name = "d2"
    /\ Len(chain.orig) = 2
    /\ iterateTests(Heap, Root)[1].decs = <<"d1", "d2">>

(***************************************************************************)
(* C9.  decorate invokes the decorator once on each leaf of the tree and   *)
(* on no suite; an empty suite is returned as it is, with no children and  *)
(* no invocation, iterateTests of it yields nothing and its run invokes    *)
(* nothing.                                                                *)
(***************************************************************************)
C9_DecoratorInvokedOncePerLeaf ==
    /\ Returned =>
           /\ last.calls = last.before
           /\ \A i \in 1..Len(last.calls) : last.calls[i].kind = "leaf"
           /\ Len(last.calls) = Cardinality(LeafPaths(pre, last.arg))
           /\ TestsOf(pre, last.arg.id) = <<>> =>
                  /\ last.calls = <<>>
                  /\ last.ret = last.arg
                  /\ TestsOf(Heap, last.arg.id) = <<>>
                  /\ iterateTests(Heap, last.ret) = <<>>
    /\ (/\ ndec > 0
        /\ last.op = "run"
        /\ TestsOf(Heap, last.arg.id) = <<>>)
       => (last.res.id = 1 /\ last.res.log = <<>> /\ last.calls = <<>>)
    /\ (/\ ndec > 0
        /\ last.op = "iterateTests"
        /\ IsIterable(last.arg)
        /\ TestsOf(Heap, last.arg.id) = <<>>)
       => last.out = <<>>

\* A suite with two leaves is decorated: two invocations.
C9_Witness ==
    /\ Returned
    /\ Len(TestsOf(pre, 1)) = 2
    /\ TestsOf(pre, 1)[1].kind = "leaf"
    /\ TestsOf(pre, 1)[2].kind = "leaf"
    /\ Len(last.calls) = 2

(***************************************************************************)
(* Runs of the decorator that forces garbage collection.                   *)
(***************************************************************************)
Top == Len(cur.wrappers)

TopIsForced ==
    /\ lastRun.op = "run"
    /\ cur.wrappers[Top] = "_ForceGarbageCollectionDecorator"

\* The events of the last run at a level of the decorator chain.
AtLevel(k) == SelectSeq(lastRun.trace, LAMBDA e : e.level = k)
Names(events) == [i \in 1..Len(events) |-> events[i].ev]
Steps(k) == Names(SelectSeq(AtLevel(k), LAMBDA e : e.ev # "addError"))
AddErrorCalls(k) == SelectSeq(AtLevel(k), LAMBDA e : e.ev = "addError")

(***************************************************************************)
(* C2.  Once a run has started capturing, flushErrors and _remove are      *)
(* executed before the run exits, on every path: after any run the         *)
(* observer is not capturing and holds no errors.                          *)
(***************************************************************************)
C2_CaptureNeverLeaks ==
    lastRun.op = "run" =>
        /\ \A n \in 1..Len(lastRun.trace) :
               lastRun.trace[n].ev = "_add" =>
                   \E f, r \in (n + 1)..Len(lastRun.trace) :
                       /\ f < r
                       /\ lastRun.trace[f].ev = "flushErrors"
                       /\ lastRun.trace[r].ev = "_remove"
                       /\ lastRun.trace[f].level = lastRun.trace[n].level
                       /\ lastRun.trace[r].level = lastRun.trace[n].level
        /\ ~observer.capturing
        /\ observer.errors = <<>>

(***************************************************************************)
(* C4.  In a run during which n errors are logged between the start of the *)
(* capture and the drain, addError is called n times, once for each of     *)
(* them, with the decorator as the test; in a run during which none is     *)
(* logged addError is not called.                                          *)
(***************************************************************************)
C4_EveryCapturedErrorAdded ==
    TopIsForced =>
        LET calls == AddErrorCalls(Top)
        IN  /\ Len(calls) = lastRun.env.post
            /\ \A i \in 1..Len(calls) :
                   /\ calls[i].test = cur
                   /\ calls[i].error = <<nruns, Top, "post", i>>

(***************************************************************************)
(* C5.  A run that completes performs, once each and in this order: a      *)
(* sweep, the run of the wrapped test by TestDecorator.run, _add, a second *)
(* sweep, the drain of the captured errors into the result, flushErrors,   *)
(* _remove.                                                                *)
(***************************************************************************)
C5_RunOrder ==
    (lastRun.op = "run" /\ ~lastRun.exc) =>
        \A k \in 1..Top :
            cur.wrappers[k] = "_ForceGarbageCollectionDecorator" =>
                /\ Steps(k) = <<"gc", "run", "ran", "_add", "gc", "getErrors",
                                "flushErrors", "_remove">>
                /\ \A n \in 1..Len(lastRun.trace) :
                       (lastRun.trace[n].ev = "addError" /\ lastRun.trace[n].level = k) =>
                           /\ \E g \in 1..(n - 1) :
                                  /\ lastRun.trace[g].ev = "getErrors"
                                  /\ lastRun.trace[g].level = k
                           /\ \E f \in (n + 1)..Len(lastRun.trace) :
                                  /\ lastRun.trace[f].ev = "flushErrors"
                                  /\ lastRun.trace[f].level = k
                \* the wrapped test has finished when the capture starts
                /\ \A n \in 1..Len(lastRun.trace) :
                       (lastRun.trace[n].level < k) =>
                           \E a, b \in 1..Len(lastRun.trace) :
                               /\ a < n /\ n < b
                               /\ lastRun.trace[a] = Ev("run", [wrappers |-> SubSeq(cur.wrappers, 1, k)], NoArg)
                               /\ lastRun.trace[b] = Ev("ran", [wrappers |-> SubSeq(cur.wrappers, 1, k)], NoArg)

\* A completed run of a forcing decorator around a forcing decorator, with
\* errors drained.
C5_Witness ==
    /\ lastRun.op = "run"
    /\ ~lastRun.exc
    /\ cur.wrappers = <<"_ForceGarbageCollectionDecorator",
                        "_ForceGarbageCollectionDecorator">>
    /\ Len(AddErrorCalls(2)) > 0

(***************************************************************************)
(* C10.  Constructing a decorator with a value that neither provides the   *)
(* test case interface nor can be adapted to it fails with                 *)
(* UnadaptableTestError: no decorator wraps such a value.                  *)
(***************************************************************************)
C10_UnadaptableRejected ==
    /\ cur.wrappers # <<>> => cur.shape # "object"
    /\ (lastRun.op = "construct" /\ cur.shape = "object") =>
           (~lastRun.ok /\ cur.wrappers = <<>>)
    /\ (lastRun.op = "construct" /\ ~lastRun.ok) => cur = Value("object")

C10_Witness ==
    /\ lastRun.op = "construct"
    /\ ~lastRun.ok
    /\ cur = Value("object")

(***************************************************************************)
(* C11.  _BrokenIDTestCaseAdapter.id() returns the wrapped case's short    *)
(* description whenever that is not None, the empty description included,  *)
(* and the wrapped case's own id() when the description is None.           *)
(***************************************************************************)
C11_BrokenIdPrefersDescription ==
    (adapter.op = "id" /\ adapter.obj.cls = "_BrokenIDTestCaseAdapter") =>
        LET case == adapter.obj.case
        IN  /\ case.desc # None => adapter.out = case.desc
            /\ case.desc = None => adapter.out = case.id

\* id() was called on the adapter of a function-style case whose short
\* description is the empty string.
C11_Witness ==
    /\ adapter.op = "id"
    /\ adapter.obj.cls = "_BrokenIDTestCaseAdapter"
    /\ adapter.obj.case.desc = ""
    /\ adapter.out = ""

(***************************************************************************)
(* C12.  In every run of a suite, through run or __call__, a child of a    *)
(* suite that was entered is invoked at most once and in insertion order,  *)
(* and it is left un-invoked only if result.shouldStop was read as true at *)
(* its turn or at an earlier child's turn; when shouldStop is never read   *)
(* as true, every child of every entered suite is invoked exactly once.    *)
(***************************************************************************)
RunLog == last.res.log

Entered(s) ==
    \/ s = last.arg.id
    \/ \E a \in 1..Len(RunLog) :
           RunLog[a].ev = "call" /\ RunLog[a].test = Suite(s)

Invocations(s, i) ==
    {a \in 1..Len(RunLog) : /\ RunLog[a].ev = "call"
                            /\ RunLog[a].suite = s
                            /\ RunLog[a].idx = i}

StopReadBy(s, i) ==
    \E a \in 1..Len(RunLog) : /\ RunLog[a].ev = "check"
                              /\ RunLog[a].suite = s
                              /\ RunLog[a].idx <= i
                              /\ RunLog[a].stop

StopNeverRead ==
    \A a \in 1..Len(RunLog) : RunLog[a].ev = "check" => ~RunLog[a].stop

ResultGiven ==
    [id |-> 1,
     shouldStop |-> IF RunLog = <<>> THEN last.res.shouldStop
                    ELSE RunLog[1].stop,
     stopper |-> last.res.stopper,
     log |-> <<>>]

C13_RunReturnsResultGiven ==
    /\ last.op \in {"run", "__call__"} => last.res.id = ResultGiven.id
    /\ last.op = "__call__" => last.res = run(Heap, ResultGiven, last.arg)

\* suite(result) on a suite with two children, stopped by the first of
\* them, returned the result.
C13_Witness ==
    /\ last.op = "__call__"
    /\ Len(RunLog) = 3
    /\ RunLog[3].ev = "check" /\ RunLog[3].stop
    /\ last.res.id = 1

(***************************************************************************)
(* C14.  Calling a decorator executes the run of its own class, the        *)
(* overriding run of a subclass included.  At every level of the chain     *)
(* TestDecorator.run calls the run of the wrapped test exactly once, with  *)
(* a result adapter of the decorator's own class around the result it was  *)
(* given, so that the adapters nest as the decorators do and what the test *)
(* case reports reaches the first result as the decorated test.            *)
(***************************************************************************)
PassedAt(k) == SelectSeq(lastRun.passed, LAMBDA c : c.level = k)
CaseReports == SelectSeq(lastRun.trace, LAMBDA e : e.ev = "case")

C14_RunPassesAdapterOfOwnClass ==
    lastRun.op = "run" =>
        /\ lastRun.trace[1].level = Top
        /\ lastRun.trace[1].ev =
               IF cur.wrappers[Top] = "_ForceGarbageCollectionDecorator"
               THEN "gc" ELSE "run"
        /\ \A k \in 1..Top :
               /\ Len(PassedAt(k)) = 1
               /\ PassedAt(k)[1].to =
                      [cur EXCEPT !.wrappers = SubSeq(cur.wrappers, 1, k - 1)]
               /\ PassedAt(k)[1].result =
                      [i \in 1..(Top - k + 1) |-> cur.wrappers[Top + 1 - i]]
        /\ Len(CaseReports) = 1
        /\ CaseReports[1].test = cur

\* A run of a forcing decorator around a plain decorator: the test case was
\* handed the adapter of the inner class around that of the outer class.
C14_Witness ==
    /\ lastRun.op = "run"
    /\ cur.wrappers = <<"TestDecorator", "_ForceGarbageCollectionDecorator">>
    /\ PassedAt(1)[1].result = <<"_ForceGarbageCollectionDecorator",
                                 "TestDecorator">>
    /\ CaseReports[1].test = cur

(***************************************************************************)
(* C15.  Every call of visit on the adapter of a foreign case emits one    *)
(* deprecation warning and invokes the visitor exactly once.  As stated,   *)
(* the visitor is invoked on the wrapped case:                             *)
(***************************************************************************)
C15_VisitorGetsWrappedCase ==
    adapter.op = "visit" =>
        /\ adapter.warnings = adapter.calls
        /\ Len(adapter.visited) = adapter.calls
        /\ \A i \in 1..Len(adapter.visited) :
               adapter.visited[i] = Bare(adapter.obj.case)

(***************************************************************************)
(* C15, amended.  Every call of visit on the adapter of a foreign case     *)
(* emits one deprecation warning and invokes the visitor exactly once, on  *)
(* the adapter itself and not on the case it wraps.                        *)
(***************************************************************************)
C15_VisitorGetsAdapter ==
    adapter.op = "visit" =>
        /\ adapter.warnings = adapter.calls
        /\ Len(adapter.visited) = adapter.calls
        /\ \A i \in 1..Len(adapter.visited) :
               /\ adapter.visited[i] = adapter.obj
               /\ adapter.visited[i] # Bare(adapter.obj.case)

\* visit was called twice on the generic adapter of a pyunit test case.
C15_Witness ==
    /\ adapter.op = "visit"
    /\ adapter.obj.cls = "_PyUnitTestCaseAdapter"
    /\ adapter.calls = 2
    /\ adapter.visited = <<adapter.obj, adapter.obj>>

(***************************************************************************)
(* C16.  Adapting a foreign case gives the adapter registered for the most *)
(* specific class of the case: _BrokenIDTestCaseAdapter for a function-    *)
(* style or doctest-style case, although pyunit.TestCase is registered     *)
(* too, and _PyUnitTestCaseAdapter for every other pyunit test case; a     *)
(* value of no registered class is not adapted.                            *)
(***************************************************************************)
C16_MostSpecificAdapterWins ==
    LET type == adapter.obj.case.type
    IN  /\ adapter.obj.cls # "" =>
               /\ type \in {"pyunit.FunctionTestCase", "doctest.DocTestCase"}
                      => adapter.obj.cls = "_BrokenIDTestCaseAdapter"
               /\ type \in {"pyunit.TestCase", "UserTestCase"}
                      => adapter.obj.cls = "_PyUnitTestCaseAdapter"
               /\ type # "object"
        /\ adapter.op = "adapt" => (adapter.ok <=> adapter.obj.cls # "")
        /\ (adapter.op = "adapt" /\ type # "object") => adapter.ok

\* A function-style case was adapted.
C16_Witness ==
    /\ adapter.op = "adapt"
    /\ adapter.obj.case.type = "pyunit.FunctionTestCase"
    /\ adapter.obj.cls = "_BrokenIDTestCaseAdapter"

(***************************************************************************)
(* C17.  In every run of a decorated test, forcing decorators around       *)
(* forcing decorators included, at most one capture is open at any time:   *)
(* every _add is followed by the _remove of the same decorator before any  *)
(* other _add, and a run that returns has made as many _remove calls as    *)
(* _add calls.                                                             *)
(***************************************************************************)
CountOf(ev, n) ==
    Cardinality({a \in 1..n : lastRun.trace[a].ev = ev})

C17_OneCaptureSpanAtATime ==
    lastRun.op = "run" =>
        /\ \A n \in 1..Len(lastRun.trace) :
               /\ CountOf("_add", n) - CountOf("_remove", n) \in {0, 1}
               /\ lastRun.trace[n].ev = "_add" =>
                      \E r \in (n + 1)..Len(lastRun.trace) :
                          /\ lastRun.trace[r].ev = "_remove"
                          /\ lastRun.trace[r].level = lastRun.trace[n].level
                          /\ \A a \in (n + 1)..(r - 1) :
                                 lastRun.trace[a].ev # "_add"
        /\ ~lastRun.exc =>
               CountOf("_add", Len(lastRun.trace))
                   = CountOf("_remove", Len(lastRun.trace))

(***************************************************************************)
(* C18.  A generator iterateTests(S) that is advanced over a tree which    *)
(* decorate(S, d) rebuilds, completely, between two of its advances never  *)
(* yields more entries than S had leaves when the generator was created,   *)
(* and when it is exhausted it has yielded exactly one entry for each of   *)
(* those leaves, in their order, each entry being the leaf or d applied to *)
(* the leaf.                                                               *)
(***************************************************************************)
C18_GeneratorSurvivesDecorate ==
    (gen.status # "none" /\ ndec = gen.ndec0 + 1) =>
        /\ Len(gen.yielded) <= Len(gen.orig)
        /\ \A i \in 1..Len(gen.yielded) :
               gen.yielded[i] \in {gen.orig[i], Apply(last.d, gen.orig[i])}
        /\ gen.status = "done" => Len(gen.yielded) = Len(gen.orig)

\* An exhausted generator that yielded an original leaf before the tree was
\* decorated and a decorated leaf of a nested suite after it.
C18_Witness ==
    /\ gen.status = "done"
    /\ ndec = gen.ndec0 + 1
    /\ Len(gen.yielded) = 2
    /\ gen.yielded[1] = Leaf(gen.yielded[1].id)
    /\ gen.yielded[2].decs = <<"d1">>

(***************************************************************************)
(* C19.  When the decorator raises at the k-th leaf of the tree, decorate  *)
(* returns nothing and the tree stays as the exception found it: the root  *)
(* is bound to a new list; every suite on the path to that leaf holds the  *)
(* children rebuilt before the path's child and nothing else, so that none *)
(* of the k-th and later leaves is reachable from it; every suite that     *)
(* comes after the path keeps its list and its children.                   *)
(***************************************************************************)
Raised == last.op = "decorate" /\ last.exc

\* What decorate puts back for a child it has rebuilt.
Rebuilt(c) == IF c.kind = "leaf" THEN Apply(last.d, c) ELSE c

C19_DecorateNotAtomic ==
    Raised =>
        LET k == Len(last.calls)
        IN  /\ k = last.d.failAt
            /\ last.calls[k] = last.before[k]
            /\ last.ret = NoTest
            /\ tests[1] # pre.tests[1]
            /\ \A p \in LeafPaths(pre, Root) :
                   Rank(pre, Root, p) = k =>
                       /\ \A j \in 0..(Len(p) - 1) :
                              LET X == Node(pre, Root, SubSeq(p, 1, j))
                                  old == TestsOf(pre, X.id)
                              IN  /\ TestsOf(Heap, X.id) =
                                         [i \in 1..(p[j + 1] - 1) |-> Rebuilt(old[i])]
                                  /\ \A i \in k..Len(last.before) :
                                         \A n \in 1..Len(iterateTests(Heap, X)) :
                                             iterateTests(Heap, X)[n].id
                                                 # last.before[i].id
                       /\ \A q \in Paths :
                              (Node(pre, Root, q).kind = "suite" /\ Before(p, q)) =>
                                  LET Y == Node(pre, Root, q)
                                  IN  /\ tests[Y.id] = pre.tests[Y.id]
                                      /\ TestsOf(Heap, Y.id) = TestsOf(pre, Y.id)

\* The decorator raised at the second leaf, inside a nested suite that
\* follows the first leaf: the root is left with the first leaf decorated
\* and without the nested suite.
C19_Witness ==
    /\ Raised
    /\ last.d.failAt = 2
    /\ Len(last.before) = 2
    /\ TestsOf(Heap, 1) = <<[Leaf(1) EXCEPT !.decs = <<"d1">>]>>
    /\ TestsOf(pre, 1) = <<Leaf(1), Suite(2)>>
    /\ TestsOf(Heap, 2) = <<>>

====
